---- MODULE Spec2Model ----
(***************************************************************************)
(* The string primitives of lib/VM/StringPrimitive.cpp as a state machine: *)
(* the heap of string cells, the collector's external-memory ledger and    *)
(* the record of the last call.  One action per entry point.               *)
(***************************************************************************)
EXTENDS Integers, Sequences, FiniteSets, TLC

VARIABLES heap, nextId, credited, debited, last, nCalls

vars == <<heap, nextId, credited, debited, last, nCalls>>

(* ------------------------------------------------------------------ *)
(* Bounds of the model                                                 *)
(* ------------------------------------------------------------------ *)

\* Calls the engine makes into the string primitives in one run.
MaxCalls == 2

\* The collector's external-memory budget, in bytes.
MaxExternalBytes == 5

\* Longest operand drawn for the comparator specification.
MaxCmpLen == 2

(* ------------------------------------------------------------------ *)
(* Constants of StringPrimitive.h, scaled down, order kept:            *)
(* EXTERNAL_STRING_MIN_SIZE < EXTERNAL_STRING_THRESHOLD                *)
(*                          < MAX_STRING_LENGTH                        *)
(* ------------------------------------------------------------------ *)

EXTERNAL_STRING_MIN_SIZE == 2

EXTERNAL_STRING_THRESHOLD == 3

MAX_STRING_LENGTH == 4

\* Code units the model draws: one ASCII unit and one unit above the ASCII
\* range.
Chars == {97, 233}

\* Identifiers the symbol table may hand out; InvalidSymbolID is the value of
\* a default-constructed SymbolID.
SymbolIDs == {1}

InvalidSymbolID == 0

MsgLength == "String length exceeds limit"

MsgExternal == "Cannot allocate an external string primitive."

(* ------------------------------------------------------------------ *)
(* Cell kinds and their static descriptions                            *)
(* ------------------------------------------------------------------ *)

DynamicKind(narrow, uniqued) ==
  IF uniqued
    THEN (IF narrow THEN "DynamicUniquedASCII" ELSE "DynamicUniquedUTF16")
    ELSE (IF narrow THEN "DynamicASCII" ELSE "DynamicUTF16")

ExternalKind(narrow) == IF narrow THEN "ExternalASCII" ELSE "ExternalUTF16"

CellKinds ==
  {"DynamicASCII", "DynamicUTF16", "DynamicUniquedASCII",
   "DynamicUniquedUTF16", "ExternalASCII", "ExternalUTF16"}

isExternalKind(k) == k \in {"ExternalASCII", "ExternalUTF16"}

isASCIIKind(k) == k \in {"DynamicASCII", "DynamicUniquedASCII", "ExternalASCII"}

isASCII(s) == isASCIIKind(s.kind)

getStringLength(s) == Len(s.chars)

SizeOf(narrow) == IF narrow THEN 1 ELSE 2

getStringByteSize(s) == getStringLength(s) * SizeOf(isASCII(s))

isExternalLength(n) == n >= EXTERNAL_STRING_THRESHOLD

\* Fields each BuildMeta callback adds to the metadata builder.
symbolStringPrimitiveBuildMeta == {"uniqueID"}

DynamicASCIIStringPrimitiveBuildMeta == {}

DynamicUTF16StringPrimitiveBuildMeta == {}

DynamicUniquedASCIIStringPrimitiveBuildMeta == symbolStringPrimitiveBuildMeta

DynamicUniquedUTF16StringPrimitiveBuildMeta == symbolStringPrimitiveBuildMeta

ExternalASCIIStringPrimitiveBuildMeta == symbolStringPrimitiveBuildMeta

\* ExternalUTF16StringPrimitiveBuildMeta declaring nothing.
ExternalUTF16BuildMetaEmpty == {}

ExternalUTF16StringPrimitiveBuildMeta == symbolStringPrimitiveBuildMeta

BuildMeta(k) ==
  CASE k = "DynamicASCII" -> DynamicASCIIStringPrimitiveBuildMeta
    [] k = "DynamicUTF16" -> DynamicUTF16StringPrimitiveBuildMeta
    [] k = "DynamicUniquedASCII" -> DynamicUniquedASCIIStringPrimitiveBuildMeta
    [] k = "DynamicUniquedUTF16" -> DynamicUniquedUTF16StringPrimitiveBuildMeta
    [] k = "ExternalASCII" -> ExternalASCIIStringPrimitiveBuildMeta
    [] k = "ExternalUTF16" -> ExternalUTF16StringPrimitiveBuildMeta

(* ------------------------------------------------------------------ *)
(* Code-unit sequences                                                 *)
(* ------------------------------------------------------------------ *)

SeqsUpTo(S, n) == UNION {[1..k -> S] : k \in 0..n}

isAllASCII(str) == \A i \in 1..Len(str) : str[i] < 128

ASCIIChars == {c \in Chars : c < 128}

\* Spans a caller may pass: every span within the length limit, and one
\* over-long span per code unit.
SpansOver(S) ==
  SeqsUpTo(S, MAX_STRING_LENGTH)
    \cup {[i \in 1..(MAX_STRING_LENGTH + 1) |-> c] : c \in S}

NarrowSpans == SpansOver(ASCIIChars)

WideSpans == SpansOver(Chars)

Spans(narrow) == IF narrow THEN NarrowSpans ELSE WideSpans

Cell(k, chars, uniqued, id) ==
  [kind |-> k, chars |-> chars, uniqued |-> uniqued, uniqueID |-> id]

(* ------------------------------------------------------------------ *)
(* Predefined cells of the runtime                                     *)
(* ------------------------------------------------------------------ *)

EmptyStringId == 0

getCharacterString(c) == Cardinality({d \in Chars : d <= c})

FirstFree == Cardinality(Chars) + 1

PredefinedHeap ==
  [i \in 0..(FirstFree - 1) |->
     IF i = EmptyStringId
       THEN Cell("DynamicASCII", <<>>, FALSE, InvalidSymbolID)
       ELSE LET c == CHOOSE d \in Chars : getCharacterString(d) = i
            IN Cell(DynamicKind(c < 128, FALSE), <<c>>, FALSE, InvalidSymbolID)]

NoCall ==
  [op |-> "none", status |-> "none", error |-> "", result |-> -1,
   x |-> -1, y |-> -1, start |-> 0, length |-> 0, src |-> <<>>,
   narrowTyped |-> FALSE, owned |-> FALSE, cmp |-> 0, eq |-> FALSE]

Init ==
  /\ heap = PredefinedHeap
  /\ nextId = FirstFree
  /\ credited = <<>>
  /\ debited = <<>>
  /\ last = NoCall
  /\ nCalls = 0

(* ------------------------------------------------------------------ *)
(* The collector: allocation and the external-memory ledger            *)
(* ------------------------------------------------------------------ *)

RECURSIVE SumSeq(_)
SumSeq(s) == IF s = <<>> THEN 0 ELSE Head(s) + SumSeq(Tail(s))

RECURSIVE SumLog(_, _)
SumLog(log, ids) ==
  IF ids = {} THEN 0
  ELSE LET i == CHOOSE j \in ids : TRUE
       IN SumSeq(log[i]) + SumLog(log, ids \ {i})

TotalCredited == SumLog(credited, DOMAIN credited)

TotalDebited == SumLog(debited, DOMAIN debited)

Log(log, id) == IF id \in DOMAIN log THEN log[id] ELSE <<>>

Record(log, id, bytes) ==
  (id :> Append(Log(log, id), bytes)) @@ log

canAllocExternalMemory(bytes) ==
  (TotalCredited - TotalDebited) + bytes <= MaxExternalBytes

alloc(cell) ==
  /\ heap' = heap @@ (nextId :> cell)
  /\ nextId' = nextId + 1

\* The model's cap on the calls of one run.
HasBudget == nCalls < MaxCalls

Called == HasBudget /\ nCalls' = nCalls + 1

Return(call, id) ==
  /\ Called
  /\ last' = [call EXCEPT !.status = "ok", !.result = id]

raiseRangeError(call, msg) ==
  /\ Called
  /\ last' = [call EXCEPT !.status = "exception", !.error = msg]
  /\ UNCHANGED <<heap, nextId, credited, debited>>

(* ------------------------------------------------------------------ *)
(* ExternalStringPrimitive<T>                                          *)
(* ------------------------------------------------------------------ *)

allocSize(length, narrow) == length * SizeOf(narrow)

Call(op) == [NoCall EXCEPT !.op = op]

\* create(Runtime *, StdString &&): the length check, the cell, the credit.
ExternalCreateImpl(call, str, narrow) ==
  IF Len(str) > MAX_STRING_LENGTH
    THEN raiseRangeError(call, MsgLength)
    ELSE /\ alloc(Cell(ExternalKind(narrow), str, FALSE, InvalidSymbolID))
         /\ credited' = Record(credited, nextId, allocSize(Len(str), narrow))
         /\ UNCHANGED debited
         /\ Return(call, nextId)

ExternalCreate(str, narrow) ==
  ExternalCreateImpl([Call("ExternalCreate") EXCEPT
                        !.length = Len(str),
                        !.narrowTyped = narrow, !.owned = TRUE],
                     str, narrow)

\* ExternalCreateLongLivedCheck without the budget check.
ExternalCreateLongLivedCheckNoBudget(length, narrow) ==
  IF length > MAX_STRING_LENGTH THEN MsgLength ELSE ""

\* The checks createLongLived makes before it allocates: "" when it goes on.
ExternalCreateLongLivedCheck(length, narrow) ==
  IF length > MAX_STRING_LENGTH THEN MsgLength
  ELSE IF ~canAllocExternalMemory(allocSize(length, narrow)) THEN MsgExternal
  ELSE ""

ExternalCreateLongLived(str, narrow, uniqueID) ==
  LET call == [Call("ExternalCreateLongLived") EXCEPT
                 !.length = Len(str),
                 !.narrowTyped = narrow, !.owned = TRUE]
      err == ExternalCreateLongLivedCheck(Len(str), narrow)
  IN IF err # ""
       THEN raiseRangeError(call, err)
       ELSE /\ alloc(Cell(ExternalKind(narrow), str, TRUE, uniqueID))
            /\ credited' = Record(credited, nextId, allocSize(Len(str), narrow))
            /\ UNCHANGED debited
            /\ Return(call, nextId)

\* The checks create(Runtime *, uint32_t) makes before it delegates.
ExternalCreateLengthCheck(length, narrow) ==
  IF length > MAX_STRING_LENGTH THEN MsgLength
  ELSE IF ~canAllocExternalMemory(allocSize(length, narrow)) THEN MsgExternal
  ELSE ""

ExternalCreateLength(length, narrow) ==
  LET call == [Call("ExternalCreateLength") EXCEPT
                 !.length = length, !.narrowTyped = narrow]
      err == ExternalCreateLengthCheck(length, narrow)
  IN /\ isExternalLength(length)
     /\ IF err # ""
          THEN raiseRangeError(call, err)
          ELSE ExternalCreateImpl(call, [i \in 1..length |-> 0], narrow)

\* finalizeImpl as it would be if it debited the character count, not the
\* byte size.
finalizeImplDebitsLength(id) ==
  /\ id \in DOMAIN heap
  /\ isExternalKind(heap[id].kind)
  /\ debited' = Record(debited, id, getStringLength(heap[id]))
  /\ heap' = [i \in DOMAIN heap \ {id} |-> heap[i]]
  /\ last' = [Call("finalize") EXCEPT !.status = "ok", !.x = id]
  /\ UNCHANGED <<nextId, credited, nCalls>>

\* The finalizer the collector runs on an External cell before it frees it.
finalizeImpl(id) ==
  /\ id \in DOMAIN heap
  /\ isExternalKind(heap[id].kind)
  /\ debited' = Record(debited, id, getStringByteSize(heap[id]))
  /\ heap' = [i \in DOMAIN heap \ {id} |-> heap[i]]
  /\ last' = [Call("finalize") EXCEPT !.status = "ok", !.x = id]
  /\ UNCHANGED <<nextId, credited, nCalls>>

(* ------------------------------------------------------------------ *)
(* DynamicStringPrimitive<T, Uniqued>                                  *)
(* ------------------------------------------------------------------ *)

DynamicCreateImpl(call, chars, narrow, uniqued) ==
  /\ alloc(Cell(DynamicKind(narrow, uniqued), chars, uniqued, InvalidSymbolID))
  /\ Return(call, nextId)
  /\ UNCHANGED <<credited, debited>>

DynamicCreate(str, narrow, uniqued) ==
  /\ ~isExternalLength(Len(str))
  /\ DynamicCreateImpl([Call("DynamicCreate") EXCEPT
                          !.length = Len(str),
                          !.narrowTyped = narrow],
                       str, narrow, uniqued)

DynamicCreateLongLived(str, narrow, uniqued) ==
  /\ ~isExternalLength(Len(str))
  /\ DynamicCreateImpl([Call("DynamicCreateLongLived") EXCEPT
                          !.length = Len(str),
                          !.narrowTyped = narrow],
                       str, narrow, uniqued)

\* create(Runtime *, uint32_t) leaves the trailing characters unwritten: the
\* cell holds whatever the memory held.
DynamicCreateLength(length, narrow, uniqued) ==
  \E garbage \in [1..length -> Chars] :
    DynamicCreateImpl([Call("DynamicCreateLength") EXCEPT
                         !.length = length, !.narrowTyped = narrow],
                      garbage, narrow, uniqued)

(* ------------------------------------------------------------------ *)
(* StringPrimitive::createEfficient                                    *)
(* ------------------------------------------------------------------ *)

\* createEfficientRule without the empty-source rule.
createEfficientRuleNoEmpty(str, owned) ==
  IF Len(str) = 1 THEN "char"
  ELSE IF owned /\ Len(str) >= EXTERNAL_STRING_MIN_SIZE THEN "external"
  ELSE "inline"

\* createEfficientRule without the single-character rule.
createEfficientRuleNoChar(str, owned) ==
  IF Len(str) = 0 THEN "empty"
  ELSE IF owned /\ Len(str) >= EXTERNAL_STRING_MIN_SIZE THEN "external"
  ELSE "inline"

\* createEfficientRule taking ownership only above EXTERNAL_STRING_MIN_SIZE.
createEfficientRuleStrictMin(str, owned) ==
  IF Len(str) = 0 THEN "empty"
  ELSE IF Len(str) = 1 THEN "char"
  ELSE IF owned /\ Len(str) > EXTERNAL_STRING_MIN_SIZE THEN "external"
  ELSE "inline"

\* Which of the four outcomes createEfficientImpl selects.
createEfficientRule(str, owned) ==
  IF Len(str) = 0 THEN "empty"
  ELSE IF Len(str) = 1 THEN "char"
  ELSE IF owned /\ Len(str) >= EXTERNAL_STRING_MIN_SIZE THEN "external"
  ELSE "inline"

\* The encoding createEfficientImpl picks for a copy.
createEfficientIsAscii(str, charIs8Bit) == charIs8Bit \/ isAllASCII(str)

createEfficientImpl(str, charIs8Bit, owned) ==
  LET call == [Call("createEfficient") EXCEPT
                 !.src = str, !.length = Len(str),
                 !.narrowTyped = charIs8Bit, !.owned = owned]
      rule == createEfficientRule(str, owned)
  IN CASE rule = "empty" ->
            /\ Return(call, EmptyStringId)
            /\ UNCHANGED <<heap, nextId, credited, debited>>
       [] rule = "char" ->
            /\ Return(call, getCharacterString(str[1]))
            /\ UNCHANGED <<heap, nextId, credited, debited>>
       [] rule = "external" -> ExternalCreateImpl(call, str, charIs8Bit)
       [] rule = "inline" ->
            DynamicCreateImpl(call, str,
                              createEfficientIsAscii(str, charIs8Bit), FALSE)

NarrowRefs == SeqsUpTo(ASCIIChars, MAX_STRING_LENGTH)

WideRefs == SeqsUpTo(Chars, MAX_STRING_LENGTH)

createEfficientASCIIRef ==
  /\ HasBudget
  /\ \E str \in NarrowRefs :
       createEfficientImpl(str, TRUE, FALSE)

createEfficientUTF16Ref ==
  /\ HasBudget
  /\ \E str \in WideRefs :
       createEfficientImpl(str, FALSE, FALSE)

createEfficientString ==
  /\ HasBudget
  /\ \E str \in Spans(TRUE) : createEfficientImpl(str, TRUE, TRUE)

createEfficientU16String ==
  /\ HasBudget
  /\ \E str \in Spans(FALSE) : createEfficientImpl(str, FALSE, TRUE)

(* ------------------------------------------------------------------ *)
(* StringBuilder, as the facade uses it                                *)
(* ------------------------------------------------------------------ *)

\* createStringBuilder refuses a length over the limit; otherwise it allocates
\* the destination once. "" when it goes on.
createStringBuilderCheck(length) ==
  IF length > MAX_STRING_LENGTH THEN MsgLength ELSE ""

appendStringPrim(written, s) == written \o s.chars

appendRef(written, ref) == written \o ref

(* ------------------------------------------------------------------ *)
(* StringPrimitive::concat and StringPrimitive::slice                  *)
(* ------------------------------------------------------------------ *)

\* concatShortcut as it would be if concat always built a new cell.
concatShortcutNone(xLen, yLen) == ""

\* Which operand concat returns as it is: "y", "x", or "" when it builds.
concatShortcut(xLen, yLen) ==
  IF xLen = 0 THEN "y" ELSE IF yLen = 0 THEN "x" ELSE ""

\* concatAppend appending y before x.
concatAppendSwapped(xCell, yCell) ==
  appendStringPrim(appendStringPrim(<<>>, yCell), xCell)

\* What concat appends to its builder.
concatAppend(xCell, yCell) ==
  appendStringPrim(appendStringPrim(<<>>, xCell), yCell)

concat(x, y) ==
  LET call == [Call("concat") EXCEPT !.x = x, !.y = y]
      xLen == getStringLength(heap[x])
      yLen == getStringLength(heap[y])
      shortcut == concatShortcut(xLen, yLen)
      xyLen == xLen + yLen
  IN /\ x \in DOMAIN heap
     /\ y \in DOMAIN heap
     /\ IF shortcut # ""
          THEN /\ Return(call, IF shortcut = "y" THEN y ELSE x)
               /\ UNCHANGED <<heap, nextId, credited, debited>>
          ELSE IF createStringBuilderCheck(xyLen) # ""
            THEN raiseRangeError(call, createStringBuilderCheck(xyLen))
            ELSE DynamicCreateImpl(
                   call, concatAppend(heap[x], heap[y]),
                   isASCII(heap[x]) /\ isASCII(heap[y]), FALSE)

\* sliceWindow without the start offset.
sliceWindowFromZero(chars, start, length) == SubSeq(chars, 1, length)

\* The window slice hands to the builder: `length` units from `start`.
sliceWindow(chars, start, length) == SubSeq(chars, start + 1, start + length)

slice(str, start, length) ==
  LET call == [Call("slice") EXCEPT
                 !.x = str, !.start = start, !.length = length]
  IN /\ str \in DOMAIN heap
     /\ start + length <= getStringLength(heap[str])
     /\ IF createStringBuilderCheck(length) # ""
          THEN raiseRangeError(call, createStringBuilderCheck(length))
          ELSE DynamicCreateImpl(
                 call,
                 appendRef(<<>>, sliceWindow(heap[str].chars, start, length)),
                 isASCII(heap[str]), FALSE)

(* ------------------------------------------------------------------ *)
(* Comparison                                                          *)
(* ------------------------------------------------------------------ *)

castToASCIIRef(s) == s.chars

castToUTF16Ref(s) == s.chars

RECURSIVE stringRefCompare(_, _)
stringRefCompare(a, b) ==
  IF a = <<>> /\ b = <<>> THEN 0
  ELSE IF a = <<>> THEN -1
  ELSE IF b = <<>> THEN 1
  ELSE IF Head(a) # Head(b) THEN (IF Head(a) < Head(b) THEN -1 ELSE 1)
  ELSE stringRefCompare(Tail(a), Tail(b))

stringRefEquals(a, b) ==
  /\ Len(a) = Len(b)
  /\ \A i \in 1..Len(a) : a[i] = b[i]

\* compare with the operands swapped in the Narrow/Wide branch.
compareSwappedMixed(self, other) ==
  IF isASCII(self)
    THEN IF isASCII(other)
           THEN stringRefCompare(castToASCIIRef(self), castToASCIIRef(other))
           ELSE stringRefCompare(castToUTF16Ref(other), castToASCIIRef(self))
    ELSE IF isASCII(other)
           THEN stringRefCompare(castToUTF16Ref(self), castToASCIIRef(other))
           ELSE stringRefCompare(castToUTF16Ref(self), castToUTF16Ref(other))

compare(self, other) ==
  IF isASCII(self)
    THEN IF isASCII(other)
           THEN stringRefCompare(castToASCIIRef(self), castToASCIIRef(other))
           ELSE stringRefCompare(castToASCIIRef(self), castToUTF16Ref(other))
    ELSE IF isASCII(other)
           THEN stringRefCompare(castToUTF16Ref(self), castToASCIIRef(other))
           ELSE stringRefCompare(castToUTF16Ref(self), castToUTF16Ref(other))

sliceEquals(self, start, length, other) ==
  IF isASCII(self)
    THEN IF isASCII(other)
           THEN stringRefEquals(
                  SubSeq(castToASCIIRef(self), start + 1, start + length),
                  castToASCIIRef(other))
           ELSE stringRefEquals(
                  SubSeq(castToASCIIRef(self), start + 1, start + length),
                  castToUTF16Ref(other))
    ELSE IF isASCII(other)
           THEN stringRefEquals(
                  SubSeq(castToUTF16Ref(self), start + 1, start + length),
                  castToASCIIRef(other))
           ELSE stringRefEquals(
                  SubSeq(castToUTF16Ref(self), start + 1, start + length),
                  castToUTF16Ref(other))

\* equals(const StringPrimitive *), on the cells' addresses x and y.
equals(x, y) ==
  IF x = y THEN TRUE
  ELSE sliceEquals(heap[x], 0, getStringLength(heap[x]), heap[y])

compareCall(x, y) ==
  /\ last' = [Call("compare") EXCEPT
                !.status = "ok", !.x = x, !.y = y,
                !.cmp = compare(heap[x], heap[y])]
  /\ UNCHANGED <<heap, nextId, credited, debited, nCalls>>

equalsCall(x, y) ==
  /\ last' = [Call("equals") EXCEPT
                !.status = "ok", !.x = x, !.y = y, !.eq = equals(x, y)]
  /\ UNCHANGED <<heap, nextId, credited, debited, nCalls>>

(* ------------------------------------------------------------------ *)
(* The engine and the collector                                        *)
(* ------------------------------------------------------------------ *)

ExternalCreateCall ==
  /\ HasBudget
  /\ \E narrow \in BOOLEAN : \E str \in Spans(narrow) :
       ExternalCreate(str, narrow)

ExternalCreateLongLivedCall ==
  /\ HasBudget
  /\ \E narrow \in BOOLEAN : \E str \in Spans(narrow) : \E id \in SymbolIDs :
       ExternalCreateLongLived(str, narrow, id)

ExternalCreateLengthCall ==
  /\ HasBudget
  /\ \E narrow \in BOOLEAN :
       \E length \in EXTERNAL_STRING_THRESHOLD..(MAX_STRING_LENGTH + 1) :
         ExternalCreateLength(length, narrow)

DynamicCreateCall ==
  /\ HasBudget
  /\ \E narrow, uniqued \in BOOLEAN : \E str \in Spans(narrow) :
       DynamicCreate(str, narrow, uniqued)

DynamicCreateLongLivedCall ==
  /\ HasBudget
  /\ \E narrow, uniqued \in BOOLEAN : \E str \in Spans(narrow) :
       DynamicCreateLongLived(str, narrow, uniqued)

DynamicCreateLengthCall ==
  /\ HasBudget
  /\ \E narrow, uniqued \in BOOLEAN :
       \E length \in 0..(EXTERNAL_STRING_THRESHOLD - 1) :
         DynamicCreateLength(length, narrow, uniqued)

concatCall ==
  /\ HasBudget
  /\ \E x, y \in DOMAIN heap : concat(x, y)

sliceCall ==
  /\ HasBudget
  /\ \E str \in DOMAIN heap :
       \E start \in 0..getStringLength(heap[str]) :
         \E length \in 0..(getStringLength(heap[str]) - start) :
           slice(str, start, length)

\* The collector finalizes an External cell at a safepoint.
Collect == \E id \in DOMAIN heap : finalizeImpl(id)

Next ==
  \/ createEfficientASCIIRef
  \/ createEfficientUTF16Ref
  \/ createEfficientString
  \/ createEfficientU16String
  \/ ExternalCreateCall
  \/ ExternalCreateLongLivedCall
  \/ ExternalCreateLengthCall
  \/ DynamicCreateCall
  \/ DynamicCreateLongLivedCall
  \/ DynamicCreateLengthCall
  \/ concatCall
  \/ sliceCall
  \/ Collect

Spec == Init /\ [][Next]_vars

(* ------------------------------------------------------------------ *)
(* The comparator on drawn operands                                    *)
(* ------------------------------------------------------------------ *)

CmpFirst == FirstFree

CmpIds == CmpFirst..(CmpFirst + 2)

\* Flat cells a run of creates can leave in the heap: Narrow cells hold ASCII.
CmpCells ==
  {Cell(DynamicKind(narrow, FALSE), chars, FALSE, InvalidSymbolID) :
     <<narrow, chars>> \in
       {p \in BOOLEAN \X SeqsUpTo(Chars, MaxCmpLen) : p[1] => isAllASCII(p[2])}}

InitCmp ==
  /\ \E ops \in [CmpIds -> CmpCells] :
       heap = [i \in DOMAIN PredefinedHeap \cup CmpIds |->
                 IF i \in CmpIds THEN ops[i] ELSE PredefinedHeap[i]]
  /\ nextId = CmpFirst + 3
  /\ credited = <<>>
  /\ debited = <<>>
  /\ last = NoCall
  /\ nCalls = 0

NextCmp ==
  \/ \E x, y \in CmpIds : compareCall(x, y)
  \/ \E x, y \in CmpIds : equalsCall(x, y)

SpecCmp == InitCmp /\ [][NextCmp]_vars

(* ------------------------------------------------------------------ *)
(* Properties                                                          *)
(* ------------------------------------------------------------------ *)

\* The step just taken is a call of `op` (an action-level test).
StepOf(op) == nCalls' = nCalls + 1 /\ last'.op = op

NewIds == DOMAIN heap' \ DOMAIN heap

HeapAndLedgerUnchanged ==
  /\ heap' = heap
  /\ nextId' = nextId
  /\ credited' = credited
  /\ debited' = debited

LiveExternals == {id \in DOMAIN heap : isExternalKind(heap[id].kind)}

Finalized == DOMAIN credited \ DOMAIN heap

\* C1: every External cell ever constructed was credited exactly once, with
\* its byte size (length x code-unit size); a live one has not been debited, a
\* finalized one was debited exactly once with the amount credited; once every
\* one is finalized, total credited bytes equal total debited bytes.
C1_LedgerBalanced ==
  /\ \A id \in LiveExternals :
       /\ id \in DOMAIN credited
       /\ credited[id] =
            <<getStringLength(heap[id]) * SizeOf(isASCII(heap[id]))>>
       /\ id \notin DOMAIN debited
  /\ \A id \in Finalized :
       /\ Len(credited[id]) = 1
       /\ id \in DOMAIN debited
       /\ debited[id] = credited[id]
  /\ DOMAIN debited \subseteq Finalized
  /\ DOMAIN credited \subseteq LiveExternals \cup Finalized
  /\ (LiveExternals = {} => TotalCredited = TotalDebited)

\* Two External cells of different encodings were constructed and finalized.
C1_Witness ==
  /\ LiveExternals = {}
  /\ Cardinality(Finalized) = 2
  /\ \E i, j \in Finalized : credited[i] = <<3>> /\ credited[j] = <<4>>
  /\ TotalDebited = 7

\* C2 as stated: the only zero-length cell is the predefined empty string.
C2_OnlyEmptySingleton ==
  \A id \in DOMAIN heap :
    getStringLength(heap[id]) = 0 => id = EmptyStringId

FreshCellMakers ==
  {"slice", "DynamicCreate", "DynamicCreateLongLived", "DynamicCreateLength",
   "ExternalCreate", "ExternalCreateLongLived"}

\* C2 as amended: createEfficient of an empty source returns the predefined
\* empty string and allocates nothing, and neither createEfficient nor concat
\* ever constructs a zero-length cell; a zero-length cell is constructed only
\* by slice with length 0 or by a create or createLongLived of length 0 or of
\* an empty span, and each of those that succeeds does construct a fresh one.
C2_ZeroLengthOrigins ==
  [][ /\ \A i \in NewIds :
           getStringLength(heap'[i]) = 0 =>
             last'.op \in FreshCellMakers /\ last'.length = 0
      /\ (StepOf("createEfficient") /\ Len(last'.src) = 0) =>
           /\ last'.status = "ok"
           /\ last'.result = EmptyStringId
           /\ HeapAndLedgerUnchanged
      /\ (/\ \E op \in FreshCellMakers : StepOf(op)
          /\ last'.length = 0
          /\ last'.status = "ok") =>
           /\ last'.result \in NewIds
           /\ getStringLength(heap'[last'.result]) = 0
    ]_vars

\* slice with length 0 has returned a zero-length cell that is not the
\* predefined empty string.
C2_Witness ==
  /\ last.op = "slice"
  /\ last.length = 0
  /\ last.status = "ok"
  /\ last.result \in DOMAIN heap
  /\ last.result # EmptyStringId
  /\ getStringLength(heap[last.result]) = 0
  /\ getStringLength(heap[last.x]) > 0

\* C3 as stated: every cell of length 1 is the cached cell of its character.
C3_OnlyCachedChars ==
  \A id \in DOMAIN heap :
    getStringLength(heap[id]) = 1 =>
      id = getCharacterString(heap[id].chars[1])

\* C3 as amended: createEfficient of a one-character source returns the cached
\* cell of that character and allocates nothing (so two such results with the
\* same character are the same cell), and neither createEfficient nor concat
\* ever constructs a cell of length 1; a cell of length 1 is constructed only
\* by slice with length 1 or by a create or createLongLived of length 1 or of
\* a one-character span, and each of those that succeeds does construct a
\* fresh one.
C3_SingleCharOrigins ==
  [][ /\ \A i \in NewIds :
           getStringLength(heap'[i]) = 1 =>
             last'.op \in FreshCellMakers /\ last'.length = 1
      /\ (StepOf("createEfficient") /\ Len(last'.src) = 1) =>
           /\ last'.status = "ok"
           /\ last'.result = getCharacterString(last'.src[1])
           /\ heap[last'.result].chars = last'.src
           /\ HeapAndLedgerUnchanged
      /\ (/\ \E op \in FreshCellMakers : StepOf(op)
          /\ last'.length = 1
          /\ last'.status = "ok") =>
           /\ last'.result \in NewIds
           /\ getStringLength(heap'[last'.result]) = 1
    ]_vars

\* slice with length 1 has returned a one-character cell that is not the
\* cached cell of its character.
C3_Witness ==
  /\ last.op = "slice"
  /\ last.length = 1
  /\ last.status = "ok"
  /\ last.result \in DOMAIN heap
  /\ getStringLength(heap[last.result]) = 1
  /\ last.result # getCharacterString(heap[last.result].chars[1])
  /\ getStringLength(heap[last.x]) > 1

\* C4 as stated: concat returns the very cell y when x is empty and the very
\* cell x when y is empty, and in both cases changes neither the heap nor the
\* ledger.
C4_EmptyOperandIdentity ==
  [][ StepOf("concat") =>
        LET xLen == getStringLength(heap[last'.x])
            yLen == getStringLength(heap[last'.y])
        IN /\ xLen = 0 => last'.result = last'.y
           /\ yLen = 0 => last'.result = last'.x
           /\ (xLen = 0 \/ yLen = 0) =>
                last'.status = "ok" /\ HeapAndLedgerUnchanged
    ]_vars

\* C4 as amended: concat returns the very cell y when x is empty, and the very
\* cell x when y is empty and x is not; when both are empty it returns y. In
\* all these cases it changes neither the heap nor the ledger.
C4_EmptyOperandReturned ==
  [][ StepOf("concat") =>
        LET xLen == getStringLength(heap[last'.x])
            yLen == getStringLength(heap[last'.y])
        IN /\ xLen = 0 => last'.result = last'.y
           /\ (yLen = 0 /\ xLen # 0) => last'.result = last'.x
           /\ (xLen = 0 \/ yLen = 0) =>
                last'.status = "ok" /\ HeapAndLedgerUnchanged
    ]_vars

\* concat of an allocated External cell with the predefined empty string has
\* returned that very cell.
C4_Witness ==
  /\ last.op = "concat"
  /\ last.status = "ok"
  /\ last.y = EmptyStringId
  /\ last.x \in DOMAIN heap
  /\ last.x >= FirstFree
  /\ isExternalKind(heap[last.x].kind)
  /\ getStringLength(heap[last.x]) >= 2
  /\ last.result = last.x
  /\ nextId = FirstFree + 1

\* C5: a successful concat of two non-empty cells returns a cell whose length
\* is the sum of their lengths and whose characters are x's followed by y's,
\* whatever the two encodings.
C5_ConcatContents ==
  [][ (/\ StepOf("concat")
       /\ last'.status = "ok"
       /\ getStringLength(heap[last'.x]) > 0
       /\ getStringLength(heap[last'.y]) > 0) =>
        LET xs == heap[last'.x].chars
            ys == heap[last'.y].chars
        IN /\ last'.result \in DOMAIN heap'
           /\ getStringLength(heap'[last'.result]) = Len(xs) + Len(ys)
           /\ \A i \in 1..Len(xs) : heap'[last'.result].chars[i] = xs[i]
           /\ \A j \in 1..Len(ys) :
                heap'[last'.result].chars[Len(xs) + j] = ys[j]
    ]_vars

\* concat of a Narrow cell of two characters with a Wide cell has returned
\* their three characters in order.
C5_Witness ==
  /\ last.op = "concat"
  /\ last.status = "ok"
  /\ last.x \in DOMAIN heap
  /\ last.y \in DOMAIN heap
  /\ last.result \in DOMAIN heap
  /\ isASCII(heap[last.x])
  /\ ~isASCII(heap[last.y])
  /\ heap[last.x].chars = <<97, 97>>
  /\ heap[last.y].chars = <<233>>
  /\ heap[last.result].chars = <<97, 97, 233>>

\* C6: slice within the bounds returns a fresh cell of exactly `length`
\* characters, of the source's encoding, holding the source's characters at
\* [start, start+length); the source and every other cell stay as they were.
C6_SliceContents ==
  [][ StepOf("slice") =>
        LET s == heap[last'.x]
            r == last'.result
        IN /\ last'.status = "ok"
           /\ r \notin DOMAIN heap
           /\ r \in DOMAIN heap'
           /\ getStringLength(heap'[r]) = last'.length
           /\ isASCII(heap'[r]) = isASCII(s)
           /\ \A i \in 1..last'.length :
                heap'[r].chars[i] = s.chars[last'.start + i]
           /\ \A id \in DOMAIN heap : heap'[id] = heap[id]
    ]_vars

\* slice of a Wide cell of three characters from position 1 has returned its
\* last two characters.
C6_Witness ==
  /\ last.op = "slice"
  /\ last.status = "ok"
  /\ last.x \in DOMAIN heap
  /\ last.result \in DOMAIN heap
  /\ last.start = 1
  /\ last.length = 2
  /\ heap[last.x].chars = <<97, 233, 97>>
  /\ heap[last.result].chars = <<233, 97>>
  /\ heap[last.result].kind = "DynamicUTF16"

Sign(n) == IF n < 0 THEN -1 ELSE IF n > 0 THEN 1 ELSE 0

\* C7: compare is a total order on code-unit sequences whatever the operands'
\* encodings: its sign flips when the operands are swapped, it is transitive,
\* it is zero exactly for equal sequences, it gives the same answer for a
\* Narrow and a Wide cell of the same sequence, and equals is true exactly
\* when compare is zero (and for a cell with itself).
C7_CompareTotalOrder ==
  \A u, v \in DOMAIN heap :
    /\ Sign(compare(heap[u], heap[v])) = -Sign(compare(heap[v], heap[u]))
    /\ (compare(heap[u], heap[v]) = 0) <=> (heap[u].chars = heap[v].chars)
    /\ equals(u, v) <=> (compare(heap[u], heap[v]) = 0)
    /\ equals(u, u)
    /\ \A w \in DOMAIN heap :
         /\ (compare(heap[u], heap[v]) <= 0 /\ compare(heap[v], heap[w]) <= 0)
              => compare(heap[u], heap[w]) <= 0
         /\ heap[u].chars = heap[w].chars =>
              compare(heap[u], heap[v]) = compare(heap[w], heap[v])

\* compare of a Narrow cell with a Wide cell that differs from it in the
\* second character has answered "less".
C7_Witness ==
  /\ last.op = "compare"
  /\ isASCII(heap[last.x])
  /\ ~isASCII(heap[last.y])
  /\ heap[last.x].chars = <<97, 97>>
  /\ heap[last.y].chars = <<97, 233>>
  /\ last.cmp < 0

ExternalMakers ==
  {"ExternalCreate", "ExternalCreateLongLived", "ExternalCreateLength"}

\* C8: an External construction fails exactly when the length exceeds
\* MAX_STRING_LENGTH or, for createLongLived and create(length), when
\* canAllocExternalMemory refuses the byte size; a failing construction (also
\* one reached through createEfficient) leaves the heap and the ledger as they
\* were.
C8_FailsBeforeAnyEffect ==
  [][ /\ (\E op \in ExternalMakers : StepOf(op)) =>
           LET tooLong == last'.length > MAX_STRING_LENGTH
               refused ==
                 /\ last'.op # "ExternalCreate"
                 /\ ~canAllocExternalMemory(
                       last'.length * SizeOf(last'.narrowTyped))
           IN /\ (last'.status = "exception") <=> (tooLong \/ refused)
              /\ tooLong => last'.error = MsgLength
              /\ (refused /\ ~tooLong) => last'.error = MsgExternal
      /\ (/\ nCalls' = nCalls + 1
          /\ last'.op \in ExternalMakers \cup {"createEfficient"}
          /\ last'.status = "exception") => HeapAndLedgerUnchanged
    ]_vars

\* createLongLived was refused by the budget while an External cell was live.
C8_Witness ==
  /\ last.op = "ExternalCreateLongLived"
  /\ last.status = "exception"
  /\ last.error = MsgExternal
  /\ last.length <= MAX_STRING_LENGTH
  /\ LiveExternals # {}
  /\ nextId = FirstFree + 1
  /\ TotalCredited > 0

\* C9 as stated: a cell that is not uniqued is of a kind that declares no
\* traced field, and a uniqued one of a kind that declares the identifier.
C9_TracedOnlyForUniqued ==
  \A id \in DOMAIN heap :
    BuildMeta(heap[id].kind) =
      IF heap[id].uniqued THEN {"uniqueID"} ELSE {}

\* C9 as amended: the kinds of the uniqued flat cells and both External kinds
\* declare the identifier field, whether or not the External cell is uniqued;
\* only the kinds of the plain flat cells declare no traced field.
C9_TracedFields ==
  \A id \in DOMAIN heap :
    BuildMeta(heap[id].kind) =
      IF heap[id].uniqued \/ isExternalKind(heap[id].kind)
        THEN {"uniqueID"} ELSE {}

\* A plain External cell and a uniqued flat cell are in the heap.
C9_Witness ==
  /\ \E id \in DOMAIN heap :
       /\ isExternalKind(heap[id].kind)
       /\ ~heap[id].uniqued
       /\ BuildMeta(heap[id].kind) = {"uniqueID"}
  /\ \E id \in DOMAIN heap :
       /\ ~isExternalKind(heap[id].kind)
       /\ heap[id].uniqued

\* What rules 1, 2 and 4 of createEfficient promise, and rule 3 when `rule3`
\* is what it promises.
CreateEfficientOutcome(rule3) ==
  LET src == last'.src
      r == last'.result
  IN IF Len(src) = 0
       THEN /\ last'.status = "ok"
            /\ r = EmptyStringId
            /\ HeapAndLedgerUnchanged
     ELSE IF Len(src) = 1
       THEN /\ last'.status = "ok"
            /\ r = getCharacterString(src[1])
            /\ HeapAndLedgerUnchanged
     ELSE IF last'.owned /\ Len(src) >= EXTERNAL_STRING_MIN_SIZE
       THEN rule3
     ELSE /\ last'.status = "ok"
          /\ r \in NewIds
          /\ ~isExternalKind(heap'[r].kind)
          /\ heap'[r].chars = src
          /\ isASCII(heap'[r]) <=>
               (last'.narrowTyped \/ \A i \in 1..Len(src) : src[i] < 128)
          /\ credited' = credited

NewExternalOwningSource ==
  /\ last'.status = "ok"
  /\ last'.result \in NewIds
  /\ isExternalKind(heap'[last'.result].kind)
  /\ heap'[last'.result].chars = last'.src
  /\ isASCII(heap'[last'.result]) = last'.narrowTyped

====
